---- MODULE Spec2Model ----
(***************************************************************************)
(* A model of the AeroSandbox object core:                                 *)
(*   - AeroSandboxObject.substitute_solution and the ImplicitAnalysis      *)
(*     constructor wrapper (aerosandbox/common.py),                        *)
(*   - the analysis-specific option validation used by Airplane.__init__   *)
(*     (aerosandbox/common.py, aerosandbox/geometry/airplane.py),          *)
(*   - the input validation and resolution loop of                         *)
(*     motor_electric_performance (aerosandbox/library/                    *)
(*     propulsion_electric.py).                                            *)
(*   - Airplane.is_entirely_symmetric, Airplane.mesh_body and              *)
(*     Airplane.draw (aerosandbox/geometry/airplane.py),                   *)
(*   - the vortex lattice method's flow-tangency system, solve and load    *)
(*     integration, in exact integer arithmetic.                           *)
(* Python is single threaded: one constructor runs at a time, and each     *)
(* statement of the wrapper is one step of the constructor's position pc.  *)
(***************************************************************************)
EXTENDS Integers, Sequences, FiniteSets, TLC

\* ------------------------------------------------------------------ bounds
NumAnalyses == 2      \* ImplicitAnalysis objects that get constructed
MaxVars == 1          \* decision variables one constructor body may create
MaxCallerSolves == 1  \* calls of opti.solve() the caller makes on its own environment
MaxOpts == 2          \* option keys a user supplies for one analysis
MaxPasses == 3        \* cap on the passes through the motor resolution loop
MaxWings == 2         \* wings of an airplane
MaxXsecs == 2         \* cross-sections of a wing
MaxFuselages == 1     \* fuselages of an airplane
MaxRes == 2           \* spanwise and chordwise panels of a lifting surface

VARIABLES
    env,            \* Opti environments: variables x, constraints, who called solve
    pc,             \* position of each analysis' constructor
    arg,            \* the opti keyword argument each constructor was called with
    opti,           \* the _opti slot of each analysis (<<>> while unassigned)
    opti_provided,  \* the _opti_provided slot of each analysis (<<>> while unassigned)
    heap,           \* __dict__ of every AeroSandboxObject, as ordered name/value pairs
    log,            \* the lifecycle steps each constructor has taken, in order
    inp,            \* the input the constructor body was run with
    sol,            \* the constructor's local variable sol
    callerSol,      \* the caller's variable sol (solution of the caller's environment)
    callerSubst,    \* whether the caller has called substitute_solution on the analysis
    substCalls,     \* the solutions the caller passed to substitute_solution, per analysis
    lastRead,       \* result of the last read of the opti / opti_provided property
    shape,          \* how the analysis class under study stores its quantities
    given,          \* analysis_specific_options as the caller wrote it
    aso,            \* the analysis_specific_options dict handed to Airplane.__init__
    apc,            \* position of Airplane.__init__
    aidx,           \* loop position inside parse_analysis_specific_options
    aerr,           \* the ValueError raised by validate_analysis_specific_options
    airplane,       \* self.analysis_specific_options of the constructed Airplane
    got,            \* result of the last get_analysis_specific_options call
    margs0,         \* voltage, current, rpm, torque as the caller passed them
    margs,          \* voltage, current, rpm, torque of motor_electric_performance
    known,          \* voltage_known, current_known, rpm_known, torque_known
    mpc,            \* position of motor_electric_performance
    passes,         \* passes made through the resolution loop
    nwings,         \* len(self.wings) of the airplane is_entirely_symmetric runs on
    spc,            \* position of Airplane.is_entirely_symmetric
    widx,           \* wings the outer loop has taken
    wing,           \* the wing of the current outer iteration
    xidx,           \* cross-sections of that wing the inner loop has taken
    xsec,           \* the cross-section of the current inner iteration
    sresult,        \* <<value returned by is_entirely_symmetric>>, <<>> before
    asym,           \* whether a wing or cross-section taken so far breaks symmetry
    dargs,          \* backend, thin_wings, show of Airplane.draw and the airplane's parts
    dpc,            \* position of Airplane.draw
    dcall,          \* <<arguments mesh_body was called with>>
    dmeshes,        \* the meshes mesh_body made, wings first
    dfig,           \* <<the figure draw returns>>
    vin,            \* the airplane, operating point and resolution of the analysis
    vpc,            \* position of VortexLatticeMethod.run
    vrhs,           \* right-hand side of the flow-tangency system, per panel
    vgamma,         \* solved circulation, per panel
    vout            \* <<force and moment coefficients>>

lifeVars == <<env, pc, arg, opti, opti_provided, heap, log, inp, sol, callerSol,
              callerSubst, substCalls, lastRead, shape>>
optVars == <<given, aso, apc, aidx, aerr, airplane, got>>
motorVars == <<margs0, margs, known, mpc, passes>>
symVars == <<nwings, spc, widx, wing, xidx, xsec, sresult, asym>>
drawVars == <<dargs, dpc, dcall, dmeshes, dfig>>
vlmVars == <<vin, vpc, vrhs, vgamma, vout>>
geomVars == <<symVars, drawVars, vlmVars>>
vars == <<lifeVars, optVars, motorVars, geomVars>>

Analyses == 1..NumAnalyses
\* The environment Opti() creates for analysis a is a; the caller's own is CallerEnv.
CallerEnv == NumAnalyses + 1
EnvIds == 1..(NumAnalyses + 1)
\* Every analysis may own one nested AeroSandboxObject (its airplane / op_point).
Child(a) == NumAnalyses + a
Objects == 1..(2 * NumAnalyses)

Range(f) == {f[i] : i \in DOMAIN f}
IsPrefix(s, t) == Len(s) <= Len(t) /\ \A i \in 1..Len(s) : s[i] = t[i]

\* ------------------------------------------------------------ Python values
Num(n) == [t |-> "num", n |-> n, e |-> 0, items |-> <<>>]
Sym(e, i) == [t |-> "sym", n |-> i, e |-> e, items |-> <<>>]
Str == [t |-> "str", n |-> 0, e |-> 0, items |-> <<>>]
Obj(r) == [t |-> "obj", n |-> r, e |-> 0, items |-> <<>>]
List(s) == [t |-> "list", n |-> 0, e |-> 0, items |-> s]
Tuple(s) == [t |-> "tuple", n |-> 0, e |-> 0, items |-> s]
Dict(s) == [t |-> "dict", n |-> 0, e |-> 0, items |-> s]

\* --------------------------------------------------- the Opti environment
EmptyOpti == [x |-> <<>>, cons |-> <<>>, solves |-> <<>>]

\* opti.variable(init_guess): appends one decision variable.
variable(o, guess) == [o EXCEPT !.x = Append(@, guess)]

\* opti.subject_to(x[v] == c): appends one constraint.
subject_to(o, v, c) == [o EXCEPT !.cons = Append(@, [var |-> v, val |-> c])]

Feasible(o) ==
    \A i, j \in 1..Len(o.cons) :
        o.cons[i].var = o.cons[j].var => o.cons[i].val = o.cons[j].val

\* opti.solve(): a deterministic function of the environment's variables and
\* constraints; raises when the constraints cannot be met.
solve(o, e) ==
    [ok |-> Feasible(o),
     e |-> e,
     val |-> [i \in 1..Len(o.x) |->
                IF \E k \in 1..Len(o.cons) : o.cons[k].var = i
                THEN o.cons[CHOOSE k \in 1..Len(o.cons) : o.cons[k].var = i].val
                ELSE o.x[i]]]

\* sol.value(item) answers for symbolic and numeric scalars and raises
\* NotImplementedError for every other Python object.
sol_value_defined(item) == item.t \in {"sym", "num"}
sol_value(s, item) == IF item.t = "sym" THEN Num(s.val[item.n]) ELSE item

\* ----------------------------------------------------- substitute_solution
\* return self, the last statement of substitute_solution: the value a call
\* on object o evaluates to.
\* (faulty variant: the method ends without its return statement, so the call
\* evaluates to None)
substitute_solution_return_mutant(o) == [t |-> "none", n |-> 0, e |-> 0, items |-> <<>>]
substitute_solution_return(o) == Obj(o)

RECURSIVE convert(_, _, _), convert_items(_, _, _, _), substitute_attribs(_, _, _, _)

\* (faulty variant of convert: the converted elements of a list or tuple are
\* wrapped in one more list)
convert_mutant(h, s, item) ==
    IF sol_value_defined(item)
    THEN [h |-> h, v |-> sol_value(s, item)]
    ELSE IF item.t = "obj"
    THEN [h |-> substitute_attribs(h, s, item.n, 1),
          v |-> substitute_solution_return(item.n)]
    ELSE IF item.t \in {"list", "tuple"}
    THEN LET r == convert_items(h, s, item.items, <<>>)
         IN  [h |-> r.h, v |-> List(<<List(r.v)>>)]
    ELSE [h |-> h, v |-> item]

\* convert(item) of substitute_solution; h is the heap it may change through a
\* nested object's own substitute_solution. Returns the heap and the new value.
convert(h, s, item) ==
    IF sol_value_defined(item)
    THEN [h |-> h, v |-> sol_value(s, item)]
    ELSE IF item.t = "obj"
    THEN [h |-> substitute_attribs(h, s, item.n, 1),
          v |-> substitute_solution_return(item.n)]
    ELSE IF item.t \in {"list", "tuple"}
    THEN LET r == convert_items(h, s, item.items, <<>>)
         IN  [h |-> r.h, v |-> List(r.v)]
    ELSE [h |-> h, v |-> item]

\* [convert(i) for i in item], left to right.
convert_items(h, s, items, acc) ==
    IF items = <<>>
    THEN [h |-> h, v |-> acc]
    ELSE LET r == convert(h, s, Head(items))
         IN  convert_items(r.h, s, Tail(items), Append(acc, r.v))

\* The loop over self.__dict__ from attribute number k on.
substitute_attribs(h, s, o, k) ==
    IF k > Len(h[o])
    THEN h
    ELSE LET cur == h[o][k].val
         IN  IF cur.t = "num"
             THEN substitute_attribs(h, s, o, k + 1)
             ELSE LET r == convert(h, s, cur)
                  IN  substitute_attribs([r.h EXCEPT ![o][k].val = r.v], s, o, k + 1)

substitute_solution(h, s, o) == substitute_attribs(h, s, o, 1)

\* ------------------------------------------------- constructor bodies
\* What a wrapped constructor body (init_method) does: it creates nv decision
\* variables in self.opti, constrains the first of them once per entry of cvals,
\* and stores the first variable in attribute "a" inside a value of the shape the
\* analysis class uses and the second in attribute "b". Without variables the
\* attributes hold plain numbers. In shape "objtwice" both attributes refer to
\* the same nested object.
Shapes == {"direct", "list", "tuple", "dict", "nested", "listdict", "object",
           "listobj", "objtwice", "str"}
ObjectShapes == {"object", "listobj", "objtwice"}
ConsChoices == {<<>>, <<2>>, <<2, 3>>}
Inputs ==
    {i \in [nv : 0..MaxVars, cvals : ConsChoices, shape : Shapes] :
        i.nv = 0 => i.cvals = <<>>}
NoInput == [nv |-> 0, cvals |-> <<>>, shape |-> "none"]

Shape(sh, p, child) ==
    CASE sh = "direct" -> p
      [] sh = "list" -> List(<<p, Num(1)>>)
      [] sh = "tuple" -> Tuple(<<p, Str>>)
      [] sh = "dict" -> Dict(<<p>>)
      [] sh = "nested" -> List(<<Tuple(<<p>>), Num(1)>>)
      [] sh = "listdict" -> List(<<Dict(<<p>>)>>)
      [] sh = "object" -> Obj(child)
      [] sh = "listobj" -> List(<<Obj(child), p>>)
      [] sh = "objtwice" -> Obj(child)
      [] OTHER -> Str

RECURSIVE add_variables(_, _, _), add_constraints(_, _, _)
add_variables(o, k, n) ==
    IF k > n THEN o ELSE add_variables(variable(o, k), k + 1, n)
add_constraints(o, v, cvals) ==
    IF cvals = <<>> THEN o
    ELSE add_constraints(subject_to(o, v, Head(cvals)), v, Tail(cvals))

\* The environment after the body ran against it.
body_opti(o, in) ==
    add_constraints(add_variables(o, 1, in.nv), Len(o.x) + 1, in.cvals)

\* The k-th quantity the body stores: its k-th new variable, or a number.
payload(e, base, in, k) == IF in.nv >= k THEN Sym(e, base + k) ELSE Num(k)

\* self.__dict__ of the analysis after the body ran.
body_attribs(a, e, base, in) ==
    << [name |-> "a", val |-> Shape(in.shape, payload(e, base, in, 1), Child(a))],
       [name |-> "b", val |-> IF in.shape = "objtwice" THEN Obj(Child(a))
                              ELSE payload(e, base, in, 2)] >>

\* __dict__ of the nested object the body creates for the object shapes.
child_attribs(e, base, in) ==
    IF in.shape \in ObjectShapes
    THEN << [name |-> "c", val |-> Tuple(<<payload(e, base, in, 1)>>)] >>
    ELSE <<>>

\* --------------------------------------------- ImplicitAnalysis.initialize
NoActive == \A a \in Analyses : pc[a] \in {"new", "returned", "raised"}
Decorated(a) == log[a] # <<>> /\ log[a][1] = "opti_assigned"

\* if opti is None: ... else: ...   (the two slots init_wrapped assigns)
\* (faulty variant: a new Opti() is created even when one was supplied)
assign_opti_mutant(a, o) == [opti |-> <<a>>, provided |-> <<FALSE>>]
assign_opti(a, o) ==
    IF o = <<>>
    THEN [opti |-> <<a>>, provided |-> <<FALSE>>]
    ELSE [opti |-> o, provided |-> <<TRUE>>]

\* not self.opti_provided and not self.opti.x.shape == (0, 1)
\* (faulty variant: the guard forgets opti_provided)
should_solve_mutant(a) == Len(env[opti[a][1]].x) # 0
should_solve(a) ==
    ~opti_provided[a][1] /\ Len(env[opti[a][1]].x) # 0

\* Where the constructor is after sol = self.opti.solve(): an exception leaves it.
\* (faulty variant: a failed solve is swallowed and the constructor goes on)
after_solve_mutant(r) == "solved"
after_solve(r) == IF r.ok THEN "solved" ELSE "raised"

\* init_wrapped, first statement: assign opti and opti_provided.
AssignOpti(a) ==
    /\ pc[a] = "new"
    /\ NoActive
    /\ \E o \in {<<>>, <<CallerEnv>>} :
         LET r == assign_opti(a, o)
         IN  /\ arg' = [arg EXCEPT ![a] = o]
             /\ opti' = [opti EXCEPT ![a] = r.opti]
             /\ opti_provided' = [opti_provided EXCEPT ![a] = r.provided]
             /\ env' = IF o = <<>> THEN [env EXCEPT ![a] = EmptyOpti] ELSE env
    /\ pc' = [pc EXCEPT ![a] = "assigned"]
    /\ log' = [log EXCEPT ![a] = Append(@, "opti_assigned")]
    /\ UNCHANGED <<heap, inp, sol, callerSol, callerSubst, lastRead, shape, substCalls,
                   optVars, motorVars, geomVars>>

\* init_wrapped, second statement: init_method(self, *args, **kwargs).
InitMethod(a) ==
    /\ pc[a] = "assigned"
    /\ \E in \in {i \in Inputs : i.shape = shape} :
         LET e == opti[a][1]
             base == Len(env[e].x)
         IN  /\ env' = [env EXCEPT ![e] = body_opti(@, in)]
             /\ heap' = [heap EXCEPT ![a] = body_attribs(a, e, base, in),
                                     ![Child(a)] = child_attribs(e, base, in)]
             /\ inp' = [inp EXCEPT ![a] = in]
    /\ pc' = [pc EXCEPT ![a] = "built"]
    /\ log' = [log EXCEPT ![a] = Append(@, "init_method")]
    /\ UNCHANGED <<arg, opti, opti_provided, sol, callerSol, callerSubst, lastRead, shape,
                   substCalls, optVars, motorVars, geomVars>>

\* init_wrapped, the guarded sol = self.opti.solve().
SolveOwn(a) ==
    /\ pc[a] = "built"
    /\ should_solve(a)
    /\ LET e == opti[a][1]
           r == solve(env[e], e)
       IN  /\ env' = [env EXCEPT ![e].solves = Append(@, a)]
           /\ sol' = [sol EXCEPT ![a] = IF r.ok THEN <<r>> ELSE <<>>]
           /\ pc' = [pc EXCEPT ![a] = after_solve(r)]
           /\ log' = [log EXCEPT ![a] =
                        Append(@, IF r.ok THEN "solve" ELSE "solve_raised")]
    /\ UNCHANGED <<arg, opti, opti_provided, heap, inp, callerSol, callerSubst,
                   lastRead, shape, substCalls, optVars, motorVars, geomVars>>

\* init_wrapped, self.substitute_solution(sol), after which it returns.
SubstituteOwn(a) ==
    /\ pc[a] = "solved"
    /\ heap' = substitute_solution(heap, sol[a][1], a)
    /\ pc' = [pc EXCEPT ![a] = "returned"]
    /\ log' = [log EXCEPT ![a] = Append(@, "substitute_solution")]
    /\ UNCHANGED <<env, arg, opti, opti_provided, inp, sol, callerSol, callerSubst,
                   lastRead, shape, substCalls, optVars, motorVars, geomVars>>

\* init_wrapped returns without solving when the guard is false.
ReturnUnsolved(a) ==
    /\ pc[a] = "built"
    /\ ~should_solve(a)
    /\ pc' = [pc EXCEPT ![a] = "returned"]
    /\ UNCHANGED <<env, arg, opti, opti_provided, heap, log, inp, sol, callerSol,
                   callerSubst, lastRead, shape, substCalls, optVars, motorVars, geomVars>>

\* A subclass whose __init__ is not wrapped by ImplicitAnalysis.initialize: the
\* body runs alone and nothing assigns opti or opti_provided.
InitUndecorated(a) ==
    /\ pc[a] = "new"
    /\ NoActive
    /\ \E in \in {i \in Inputs : i.nv = 0 /\ i.shape = shape} :
         /\ heap' = [heap EXCEPT ![a] = body_attribs(a, a, 0, in),
                                 ![Child(a)] = child_attribs(a, 0, in)]
         /\ inp' = [inp EXCEPT ![a] = in]
    /\ pc' = [pc EXCEPT ![a] = "returned"]
    /\ log' = [log EXCEPT ![a] = Append(@, "init_method")]
    /\ UNCHANGED <<env, arg, opti, opti_provided, sol, callerSol, callerSubst,
                   lastRead, shape, substCalls, optVars, motorVars, geomVars>>

\* ------------------------------------------------------------- the caller
\* sol = opti.solve() on the caller's own environment.
CallerSolve ==
    /\ NoActive
    /\ Len(env[CallerEnv].x) > 0
    /\ Len(env[CallerEnv].solves) < MaxCallerSolves
    /\ LET r == solve(env[CallerEnv], CallerEnv)
       IN  callerSol' = IF r.ok THEN <<r>> ELSE callerSol
    /\ env' = [env EXCEPT ![CallerEnv].solves = Append(@, CallerEnv)]
    /\ UNCHANGED <<pc, arg, opti, opti_provided, heap, log, inp, sol, callerSubst,
                   lastRead, shape, substCalls, optVars, motorVars, geomVars>>

\* analysis.substitute_solution(sol) by the caller, with a solution that covers
\* every variable of the environment.
CallerSubstitute(a) ==
    /\ pc[a] = "returned"
    /\ Decorated(a)
    /\ opti_provided[a] = <<TRUE>>
    /\ ~callerSubst[a]
    /\ callerSol # <<>>
    /\ Len(callerSol[1].val) = Len(env[CallerEnv].x)
    /\ heap' = substitute_solution(heap, callerSol[1], a)
    /\ callerSubst' = [callerSubst EXCEPT ![a] = TRUE]
    /\ substCalls' = [substCalls EXCEPT ![a] = Append(@, callerSol[1])]
    /\ UNCHANGED <<env, pc, arg, opti, opti_provided, log, inp, sol, callerSol,
                   lastRead, shape, optVars, motorVars, geomVars>>

\* analysis.substitute_solution(sol) by the caller once more, with the solution
\* of the first call.
CallerSubstituteAgain(a) ==
    /\ pc[a] = "returned"
    /\ Len(substCalls[a]) = 1
    /\ heap' = substitute_solution(heap, substCalls[a][1], a)
    /\ substCalls' = [substCalls EXCEPT ![a] = Append(@, substCalls[a][1])]
    /\ UNCHANGED <<env, pc, arg, opti, opti_provided, log, inp, sol, callerSol,
                   callerSubst, lastRead, shape, optVars, motorVars, geomVars>>

\* The opti and opti_provided property getters: try: return self._opti
\* except AttributeError: raise self.ImplicitAnalysisInitError()
\* (faulty variant: an unassigned slot is returned instead of raising)
property_get_mutant(slot) == [raised |-> FALSE, val |-> slot]
property_get(slot) ==
    IF slot = <<>>
    THEN [raised |-> TRUE, val |-> <<>>]
    ELSE [raised |-> FALSE, val |-> slot]

ReadOpti(a) ==
    /\ pc[a] # "new"
    /\ LET r == property_get(opti[a])
       IN  lastRead' = [obj |-> a, attr |-> "opti", raised |-> r.raised,
                        val |-> r.val, flag |-> <<>>]
    /\ UNCHANGED <<env, pc, arg, opti, opti_provided, heap, log, inp, sol, callerSol,
                   callerSubst, shape, substCalls, optVars, motorVars, geomVars>>

ReadOptiProvided(a) ==
    /\ pc[a] # "new"
    /\ LET r == property_get(opti_provided[a])
       IN  lastRead' = [obj |-> a, attr |-> "opti_provided", raised |-> r.raised,
                        val |-> <<>>, flag |-> r.val]
    /\ UNCHANGED <<env, pc, arg, opti, opti_provided, heap, log, inp, sol, callerSol,
                   callerSubst, shape, substCalls, optVars, motorVars, geomVars>>

\* --------------------------------------------- analysis-specific options
\* The analysis classes and, for each, analysis.option_keys[Airplane] and
\* analysis.default_analysis_specific_options. A dict is a sequence of
\* key / value pairs in insertion order.
AnalysisClasses == {"AVL", "VLM"}
option_keys(analysis) == IF analysis = "AVL" THEN <<"p", "q">> ELSE <<"p">>
default_analysis_specific_options(analysis, key) == 0
UserKeys == {"p", "q", "z"}
UserValues == {1, 2}

Keys(d) == [k \in 1..Len(d) |-> d[k].key]
Distinct(s) == \A i, j \in 1..Len(s) : s[i] = s[j] => i = j
UserDicts ==
    {d \in UNION {[1..n -> [key : UserKeys, value : UserValues]] : n \in 0..MaxOpts} :
        Distinct(Keys(d))}
UserArgs ==
    {d \in UNION {[1..n -> [analysis : AnalysisClasses, options : UserDicts]] :
                    n \in 0..Cardinality(AnalysisClasses)} :
        Distinct([k \in 1..Len(d) |-> d[k].analysis])}

\* {key: analysis.default_analysis_specific_options[key]
\*  for key in analysis.option_keys[self]}
default_options(analysis) ==
    [k \in 1..Len(option_keys(analysis)) |->
        [key |-> option_keys(analysis)[k],
         value |-> default_analysis_specific_options(analysis, option_keys(analysis)[k])]]

\* key in analysis_specific_options.keys()
\* (faulty variant: every key is accepted)
is_option_key_mutant(opts, key) == TRUE
is_option_key(opts, key) == key \in Range(Keys(opts))

\* analysis_specific_options[key] = value
\* (faulty variant: the user's value for an existing key is dropped)
set_option_mutant(opts, key, val) ==
    IF key \in Range(Keys(opts)) THEN opts ELSE Append(opts, [key |-> key, value |-> val])
set_option(opts, key, val) ==
    IF key \in Range(Keys(opts))
    THEN [k \in 1..Len(opts) |-> IF opts[k].key = key THEN [key |-> key, value |-> val]
                                 ELSE opts[k]]
    ELSE Append(opts, [key |-> key, value |-> val])

\* for key, value in analysis_specific_options_user.items(): ...
RECURSIVE validate_loop(_, _)
validate_loop(opts, user) ==
    IF user = <<>>
    THEN [raised |-> FALSE, options |-> opts, key |-> "", valid |-> <<>>]
    ELSE IF is_option_key(opts, Head(user).key)
    THEN validate_loop(set_option(opts, Head(user).key, Head(user).value), Tail(user))
    ELSE [raised |-> TRUE, options |-> <<>>, key |-> Head(user).key, valid |-> Keys(opts)]

validate_analysis_specific_options(analysis, user) ==
    validate_loop(default_options(analysis), user)

\* get_analysis_specific_options of an Airplane whose analysis_specific_options
\* is stored.
get_analysis_specific_options(stored, analysis) ==
    IF \E k \in 1..Len(stored) : stored[k].analysis = analysis
    THEN stored[CHOOSE k \in 1..Len(stored) : stored[k].analysis = analysis].options
    ELSE validate_analysis_specific_options(analysis, <<>>).options

\* One iteration of the loop of parse_analysis_specific_options: validate the
\* entry and store the validated dict back under the same analysis.
ParseIter ==
    /\ apc = "parsing"
    /\ aidx <= Len(aso)
    /\ LET r == validate_analysis_specific_options(aso[aidx].analysis, aso[aidx].options)
       IN  IF r.raised
           THEN /\ apc' = "ValueError"
                /\ aerr' = <<[analysis |-> aso[aidx].analysis, key |-> r.key,
                              valid |-> r.valid]>>
                /\ UNCHANGED <<aso, aidx>>
           ELSE /\ aso' = [aso EXCEPT ![aidx].options = r.options]
                /\ aidx' = aidx + 1
                /\ UNCHANGED <<apc, aerr>>
    /\ UNCHANGED <<given, airplane, got, lifeVars, motorVars, geomVars>>

\* parse_analysis_specific_options returns the dict and Airplane.__init__ stores
\* it as self.analysis_specific_options: the Airplane exists.
ParseReturn ==
    /\ apc = "parsing"
    /\ aidx > Len(aso)
    /\ airplane' = <<aso>>
    /\ apc' = "constructed"
    /\ UNCHANGED <<given, aso, aidx, aerr, got, lifeVars, motorVars, geomVars>>

\* airplane.get_analysis_specific_options(analysis)
GetOptions ==
    /\ apc = "constructed"
    /\ \E analysis \in AnalysisClasses :
         got' = <<[analysis |-> analysis,
                   options |-> get_analysis_specific_options(airplane[1], analysis)]>>
    /\ UNCHANGED <<given, aso, apc, aidx, aerr, airplane, lifeVars, motorVars, geomVars>>

\* ------------------------------------------------ motor_electric_performance
Quantities == {"voltage", "current", "rpm", "torque"}
None == [src |-> "none", v |-> 0]
Given(n) == [src |-> "given", v |-> n]
Computed == [src |-> "computed", v |-> 0]
MotorValues == {None, Given(1), Given(2)}

\* voltage_known = voltage is not None, ...
known_flags(m) == [q \in Quantities |-> m[q] # None]
CountKnown(k) == Cardinality({q \in Quantities : k[q]})

\* The two assert statements.
\* (faulty variant: the second assert is missing)
asserts_pass_mutant(k) == CountKnown(k) = 2
asserts_pass(k) ==
    /\ CountKnown(k) = 2
    /\ ~(k["current"] /\ k["torque"])

\* The four blocks of one pass through the while loop, in order. Each takes and
\* returns the arguments and the known flags.
block_rpm(st) ==
    IF st.k["rpm"] /\ st.k["current"] /\ ~st.k["voltage"]
    THEN [m |-> [st.m EXCEPT !["voltage"] = Computed], k |-> [st.k EXCEPT !["voltage"] = TRUE]]
    ELSE st
block_torque(st) ==
    IF st.k["torque"] /\ ~st.k["current"]
    THEN [m |-> [st.m EXCEPT !["current"] = Computed], k |-> [st.k EXCEPT !["current"] = TRUE]]
    ELSE st
\* (faulty variant: the current is recomputed from voltage and rpm even when it
\* is already known)
block_voltage_mutant(st) ==
    IF st.k["voltage"]
    THEN LET s1 == IF st.k["rpm"]
                   THEN [m |-> [st.m EXCEPT !["current"] = Computed],
                         k |-> [st.k EXCEPT !["current"] = TRUE]]
                   ELSE st
         IN  IF ~s1.k["rpm"] /\ s1.k["current"]
             THEN [m |-> [s1.m EXCEPT !["rpm"] = Computed],
                   k |-> [s1.k EXCEPT !["rpm"] = TRUE]]
             ELSE s1
    ELSE st
block_voltage(st) ==
    IF st.k["voltage"]
    THEN LET s1 == IF st.k["rpm"] /\ ~st.k["current"]
                   THEN [m |-> [st.m EXCEPT !["current"] = Computed],
                         k |-> [st.k EXCEPT !["current"] = TRUE]]
                   ELSE st
         IN  IF ~s1.k["rpm"] /\ s1.k["current"]
             THEN [m |-> [s1.m EXCEPT !["rpm"] = Computed],
                   k |-> [s1.k EXCEPT !["rpm"] = TRUE]]
             ELSE s1
    ELSE st
block_current(st) ==
    IF st.k["current"] /\ ~st.k["torque"]
    THEN [m |-> [st.m EXCEPT !["torque"] = Computed], k |-> [st.k EXCEPT !["torque"] = TRUE]]
    ELSE st
loop_body(st) == block_current(block_voltage(block_torque(block_rpm(st))))

AllKnown(k) == \A q \in Quantities : k[q]

\* The flags are computed and the asserts run.
MotorValidate ==
    /\ mpc = "call"
    /\ known' = known_flags(margs)
    /\ mpc' = IF asserts_pass(known_flags(margs)) THEN "loop" ELSE "AssertionError"
    /\ UNCHANGED <<margs0, margs, passes, lifeVars, optVars, geomVars>>

\* One pass through the body of the while loop.
MotorLoopPass ==
    /\ mpc = "loop"
    /\ ~AllKnown(known)
    /\ passes < MaxPasses
    /\ LET st == loop_body([m |-> margs, k |-> known])
       IN  margs' = st.m /\ known' = st.k
    /\ passes' = passes + 1
    /\ UNCHANGED <<margs0, mpc, lifeVars, optVars, geomVars>>

\* The loop condition is false: efficiency is computed and the tuple returned.
MotorReturn ==
    /\ mpc = "loop"
    /\ AllKnown(known)
    /\ mpc' = "returned"
    /\ UNCHANGED <<margs0, margs, known, passes, lifeVars, optVars, geomVars>>

\* ------------------------------------------ Airplane.is_entirely_symmetric
\* What the method reads of a wing: the answer of wing.is_entirely_symmetric(),
\* wing.symmetric and len(wing.xsecs); and of a cross-section: the control
\* surface type and deflection, xyz_le, twist, twist_axis and the airfoil's CL
\* and Cm at zero angle of attack. Python index i is index i + 1 here.
Reals01 == {0, 1}
WingInputs ==
    [is_entirely_symmetric : BOOLEAN, symmetric : BOOLEAN, nxsecs : 0..MaxXsecs]
XsecInputs ==
    [control_surface_is_symmetric : BOOLEAN,
     control_surface_deflection : Reals01,
     xyz_le : {<<0, y, 0>> : y \in Reals01},
     twist : Reals01,
     twist_axis : {<<x, 1, z>> : x \in Reals01, z \in Reals01},
     CL0 : Reals01,
     Cm0 : Reals01]
NoWing == [is_entirely_symmetric |-> TRUE, symmetric |-> TRUE, nxsecs |-> 0]
NoXsec ==
    [control_surface_is_symmetric |-> TRUE, control_surface_deflection |-> 0,
     xyz_le |-> <<0, 0, 0>>, twist |-> 0, twist_axis |-> <<0, 1, 0>>,
     CL0 |-> 0, Cm0 |-> 0]

\* The checks of the inner loop body on one cross-section: FALSE where the
\* body executes return False, TRUE where it falls through.
\* (faulty variant: a twist passes when either axis component is zero)
xsec_checks_mutant(w, x) ==
    IF ~(x.control_surface_is_symmetric \/ x.control_surface_deflection = 0)
    THEN FALSE
    ELSE IF ~w.symmetric
    THEN IF ~(x.xyz_le[2] = 0)
         THEN FALSE
         ELSE IF ~(x.twist = 0) /\ ~(x.twist_axis[1] = 0 \/ x.twist_axis[3] = 0)
         THEN FALSE
         ELSE IF ~(x.CL0 = 0)
         THEN FALSE
         ELSE IF ~(x.Cm0 = 0) THEN FALSE ELSE TRUE
    ELSE TRUE
xsec_checks(w, x) ==
    IF ~(x.control_surface_is_symmetric \/ x.control_surface_deflection = 0)
    THEN FALSE
    ELSE IF ~w.symmetric
    THEN IF ~(x.xyz_le[2] = 0)
         THEN FALSE
         ELSE IF ~(x.twist = 0) /\ ~(x.twist_axis[1] = 0 /\ x.twist_axis[3] = 0)
         THEN FALSE
         ELSE IF ~(x.CL0 = 0)
         THEN FALSE
         ELSE IF ~(x.Cm0 = 0) THEN FALSE ELSE TRUE
    ELSE TRUE

\* A wing, and a cross-section of wing w, that breaks the symmetry of the
\* airplane across the XZ plane.
WingBreaksSymmetry(w) == ~w.is_entirely_symmetric
XsecBreaksSymmetry(w, x) ==
    \/ ~x.control_surface_is_symmetric /\ x.control_surface_deflection # 0
    \/ /\ ~w.symmetric
       /\ \/ x.xyz_le[2] # 0
          \/ x.twist # 0 /\ (x.twist_axis[1] # 0 \/ x.twist_axis[3] # 0)
          \/ x.CL0 # 0
          \/ x.Cm0 # 0

\* for wing in self.wings: the next wing is taken and asked whether it is
\* entirely symmetric.
SymNextWing ==
    /\ spc = "wings"
    /\ widx < nwings
    /\ \E w \in WingInputs :
         /\ wing' = w
         /\ asym' = (asym \/ WingBreaksSymmetry(w))
         /\ IF ~w.is_entirely_symmetric
            THEN spc' = "returned" /\ sresult' = <<FALSE>>
            ELSE spc' = "xsecs" /\ sresult' = sresult
    /\ widx' = widx + 1
    /\ xidx' = 0
    /\ UNCHANGED <<nwings, xsec, lifeVars, optVars, motorVars, drawVars, vlmVars>>

\* for xsec in wing.xsecs: the next cross-section is taken and checked.
SymNextXsec ==
    /\ spc = "xsecs"
    /\ xidx < wing.nxsecs
    /\ \E x \in XsecInputs :
         /\ xsec' = x
         /\ asym' = (asym \/ XsecBreaksSymmetry(wing, x))
         /\ IF ~xsec_checks(wing, x)
            THEN spc' = "returned" /\ sresult' = <<FALSE>>
            ELSE spc' = "xsecs" /\ sresult' = sresult
    /\ xidx' = xidx + 1
    /\ UNCHANGED <<nwings, widx, wing, lifeVars, optVars, motorVars, drawVars, vlmVars>>

\* The inner loop is exhausted: back to the outer loop.
SymXsecsDone ==
    /\ spc = "xsecs"
    /\ xidx = wing.nxsecs
    /\ spc' = "wings"
    /\ UNCHANGED <<nwings, widx, wing, xidx, xsec, sresult, asym,
                   lifeVars, optVars, motorVars, drawVars, vlmVars>>

\* The outer loop is exhausted: return True.
SymReturnTrue ==
    /\ spc = "wings"
    /\ widx = nwings
    /\ spc' = "returned"
    /\ sresult' = <<TRUE>>
    /\ UNCHANGED <<nwings, widx, wing, xidx, xsec, asym,
                   lifeVars, optVars, motorVars, drawVars, vlmVars>>

\* ------------------------------------------- Airplane.mesh_body and draw
Backends == {"plotly", "pyvista", "trimesh", "matplotlib"}
SupportedBackends == {"plotly", "pyvista", "trimesh"}
DrawInputs ==
    [backend : Backends, thin_wings : BOOLEAN, show : BOOLEAN,
     wings : 0..MaxWings, fuselages : 0..MaxFuselages]

\* mesh_body(method, thin_wings): wing_meshes + fuse_meshes, each mesh named by
\* the part it belongs to and the method of the part that made it.
mesh_body(nw, nf, method, thin_wings) ==
    [k \in 1..(nw + nf) |->
        IF k <= nw
        THEN [part |-> "wing",
              made_by |-> IF thin_wings THEN "mesh_thin_surface" ELSE "mesh_body",
              method |-> method]
        ELSE [part |-> "fuselage", made_by |-> "mesh_body", method |-> method]]

\* The default of mesh_body's thin_wings parameter.
mesh_body_thin_wings_default == FALSE

\* The arguments with which each backend branch of draw calls self.mesh_body.
draw_mesh_call(backend, thin_wings) ==
    CASE backend = "plotly" -> [method |-> "quad", thin_wings |-> thin_wings]
      [] backend = "pyvista" ->
            [method |-> "quad", thin_wings |-> mesh_body_thin_wings_default]
      [] backend = "trimesh" ->
            [method |-> "tri", thin_wings |-> mesh_body_thin_wings_default]

\* draw, a supported backend: the branch calls self.mesh_body.
DrawMesh ==
    /\ dpc = "call"
    /\ dargs.backend \in SupportedBackends
    /\ LET c == draw_mesh_call(dargs.backend, dargs.thin_wings)
       IN  /\ dcall' = <<c>>
           /\ dmeshes' = mesh_body(dargs.wings, dargs.fuselages, c.method, c.thin_wings)
    /\ dpc' = "meshed"
    /\ UNCHANGED <<dargs, dfig, lifeVars, optVars, motorVars, symVars, vlmVars>>

\* draw, any other backend: raise ValueError.
DrawRaise ==
    /\ dpc = "call"
    /\ dargs.backend \notin SupportedBackends
    /\ dpc' = "ValueError"
    /\ UNCHANGED <<dargs, dcall, dmeshes, dfig, lifeVars, optVars, motorVars, symVars, vlmVars>>

\* The figure is built from the mesh, shown if asked, and returned. The plotly
\* branch passes show on only from inside its loop over the faces; without
\* faces the figure's own default decides.
DrawReturn ==
    /\ dpc = "meshed"
    /\ \E shown \in BOOLEAN :
         /\ (dargs.backend # "plotly" \/ Len(dmeshes) > 0) => shown = dargs.show
         /\ dfig' = <<[backend |-> dargs.backend, meshes |-> dmeshes, shown |-> shown]>>
    /\ dpc' = "returned"
    /\ UNCHANGED <<dargs, dcall, dmeshes, lifeVars, optVars, motorVars, symVars, vlmVars>>

\* ----------------------------------------------- the vortex lattice method
\* Angles are in degrees and taken from {0, 90}, where cosine and sine are
\* integers; speed and density are 1. Vectors are <<x, y, z>> in geometry axes.
Angles == {0, 90}
cosd(a) == IF a = 0 THEN 1 ELSE 0
sind(a) == IF a = 0 THEN 0 ELSE 1
Rates == {0, 1}
VlmInputs ==
    [spanwise_resolution : 1..MaxRes, chordwise_resolution : 1..MaxRes,
     flat : BOOLEAN, alpha : Angles, beta : Angles,
     p : Rates, q : Rates, r : Rates]

Dot(u, v) == u[1] * v[1] + u[2] * v[2] + u[3] * v[3]
Cross(u, v) ==
    <<u[2] * v[3] - u[3] * v[2], u[3] * v[1] - u[1] * v[3], u[1] * v[2] - u[2] * v[1]>>
VAdd(u, v) == <<u[1] + v[1], u[2] + v[2], u[3] + v[3]>>
Scale(c, v) == <<c * v[1], c * v[2], c * v[3]>>
RECURSIVE VSum(_)
VSum(vs) == IF vs = <<>> THEN <<0, 0, 0>> ELSE VAdd(Head(vs), VSum(Tail(vs)))

\* Panel generator: spanwise times chordwise panels, ordered strip by strip.
\* A flat, uncambered, untwisted surface lies in the plane z = 0 and every
\* normal is the z axis; otherwise the panels rise along the chord and their
\* normals lean forward. The bound vortex runs spanwise.
panels(in) ==
    [k \in 1..(in.spanwise_resolution * in.chordwise_resolution) |->
        LET i == ((k - 1) \div in.chordwise_resolution) + 1
            j == ((k - 1) % in.chordwise_resolution) + 1
        IN  [control_point |-> <<j, i, IF in.flat THEN 0 ELSE j>>,
             normal |-> IF in.flat THEN <<0, 0, 1>> ELSE <<-1, 0, 1>>,
             bound_vortex |-> <<0, 1, 0>>]]

\* Flight condition: the freestream velocity vector and, with rotation rates,
\* the local velocity at a control point.
freestream(in) ==
    <<cosd(in.alpha) * cosd(in.beta), sind(in.beta), sind(in.alpha) * cosd(in.beta)>>
local_velocity(in, point) == VAdd(freestream(in), Cross(<<in.p, in.q, in.r>>, point))

\* Right-hand side of the flow-tangency system: for each panel the dot product
\* of the local velocity with the panel normal, sign-flipped.
\* (faulty variant: the velocity is projected on the chord direction)
vlm_rhs_mutant(in) ==
    [k \in 1..Len(panels(in)) |->
        0 - Dot(local_velocity(in, panels(in)[k].control_point), <<1, 0, 0>>)]
vlm_rhs(in) ==
    [k \in 1..Len(panels(in)) |->
        0 - Dot(local_velocity(in, panels(in)[k].control_point), panels(in)[k].normal)]

\* Influence matrix, entry (i, j): a nonsingular integer stand-in for the
\* horseshoe-vortex coefficients, lower triangular with unit diagonal so that
\* the dense solve is exact in integers.
influence(i, j) == IF j > i THEN 0 ELSE IF j = i THEN 1 ELSE i - j

\* The linear solve InfluenceMatrix . Circulation = rhs, by forward
\* substitution; acc holds the circulations found so far.
RECURSIVE row_sum(_, _, _), vlm_solve(_, _)
row_sum(i, j, acc) ==
    IF j = 0 THEN 0 ELSE influence(i, j) * acc[j] + row_sum(i, j - 1, acc)
vlm_solve(rhs, acc) ==
    IF Len(acc) = Len(rhs)
    THEN acc
    ELSE LET i == Len(acc) + 1
         IN  vlm_solve(rhs, Append(acc, rhs[i] - row_sum(i, i - 1, acc)))

\* Load integrator: Kutta-Joukowski force per panel, summed; moments about the
\* origin; lift is the force component normal to the freestream in the plane
\* of symmetry. CL and Cm are given before the division by dynamic pressure
\* and the reference area and chord, which does not change whether they are 0.
panel_force(in, pan, g) == Scale(g, Cross(local_velocity(in, pan.control_point), pan.bound_vortex))
coefficients(in, gamma) ==
    LET forces == [k \in 1..Len(gamma) |-> panel_force(in, panels(in)[k], gamma[k])]
        F == VSum(forces)
        M == VSum([k \in 1..Len(gamma) |-> Cross(panels(in)[k].control_point, forces[k])])
    IN  [CL |-> F[3] * cosd(in.alpha) - F[1] * sind(in.alpha), Cm |-> M[2]]

\* Construction: panels and the flow-tangency system are assembled.
VlmBuild ==
    /\ vpc = "constructed"
    /\ vrhs' = vlm_rhs(vin[1])
    /\ vpc' = "built"
    /\ UNCHANGED <<vin, vgamma, vout, lifeVars, optVars, motorVars, symVars, drawVars>>

\* The linear solve for the circulations.
VlmSolve ==
    /\ vpc = "built"
    /\ vgamma' = vlm_solve(vrhs, <<>>)
    /\ vpc' = "solved"
    /\ UNCHANGED <<vin, vrhs, vout, lifeVars, optVars, motorVars, symVars, drawVars>>

\* The loads are integrated into coefficients.
VlmLoads ==
    /\ vpc = "solved"
    /\ vout' = <<coefficients(vin[1], vgamma)>>
    /\ vpc' = "loads"
    /\ UNCHANGED <<vin, vrhs, vgamma, lifeVars, optVars, motorVars, symVars, drawVars>>

SymIdle ==
    /\ nwings = 0
    /\ spc = "idle"
    /\ widx = 0
    /\ wing = NoWing
    /\ xidx = 0
    /\ xsec = NoXsec
    /\ sresult = <<>>
    /\ asym = FALSE

DrawIdle ==
    /\ dargs = [backend |-> "none", thin_wings |-> FALSE, show |-> FALSE,
                wings |-> 0, fuselages |-> 0]
    /\ dpc = "idle"
    /\ dcall = <<>>
    /\ dmeshes = <<>>
    /\ dfig = <<>>

VlmIdle ==
    /\ vin = <<>>
    /\ vpc = "idle"
    /\ vrhs = <<>>
    /\ vgamma = <<>>
    /\ vout = <<>>

GeomIdle == SymIdle /\ DrawIdle /\ VlmIdle

\* ------------------------------------------------------- specifications
NoRead == [obj |-> 0, attr |-> "none", raised |-> FALSE, val |-> <<>>, flag |-> <<>>]

LifeInit ==
    /\ env = [e \in EnvIds |-> EmptyOpti]
    /\ pc = [a \in Analyses |-> "new"]
    /\ arg = [a \in Analyses |-> <<>>]
    /\ opti = [a \in Analyses |-> <<>>]
    /\ opti_provided = [a \in Analyses |-> <<>>]
    /\ heap = [o \in Objects |-> <<>>]
    /\ log = [a \in Analyses |-> <<>>]
    /\ inp = [a \in Analyses |-> NoInput]
    /\ sol = [a \in Analyses |-> <<>>]
    /\ callerSol = <<>>
    /\ callerSubst = [a \in Analyses |-> FALSE]
    /\ substCalls = [a \in Analyses |-> <<>>]
    /\ lastRead = NoRead
    /\ shape \in Shapes

OptIdle ==
    /\ given = <<>>
    /\ aso = <<>>
    /\ apc = "idle"
    /\ aidx = 0
    /\ aerr = <<>>
    /\ airplane = <<>>
    /\ got = <<>>

MotorIdle ==
    /\ margs0 = [q \in Quantities |-> None]
    /\ margs = margs0
    /\ known = [q \in Quantities |-> FALSE]
    /\ mpc = "idle"
    /\ passes = 0

\* Construction, solution and substitution of implicit analyses.
Init == LifeInit /\ OptIdle /\ MotorIdle /\ GeomIdle

Next ==
    \/ \E a \in Analyses : AssignOpti(a)
    \/ \E a \in Analyses : InitMethod(a)
    \/ \E a \in Analyses : SolveOwn(a)
    \/ \E a \in Analyses : SubstituteOwn(a)
    \/ \E a \in Analyses : ReturnUnsolved(a)
    \/ \E a \in Analyses : InitUndecorated(a)
    \/ CallerSolve
    \/ \E a \in Analyses : CallerSubstitute(a)

Spec == Init /\ [][Next]_vars

\* Construction of implicit analyses and reads of their opti / opti_provided
\* properties.
NextProperty ==
    \/ \E a \in Analyses : AssignOpti(a)
    \/ \E a \in Analyses : InitMethod(a)
    \/ \E a \in Analyses : SolveOwn(a)
    \/ \E a \in Analyses : SubstituteOwn(a)
    \/ \E a \in Analyses : ReturnUnsolved(a)
    \/ \E a \in Analyses : InitUndecorated(a)
    \/ \E a \in Analyses : ReadOpti(a)
    \/ \E a \in Analyses : ReadOptiProvided(a)

PropertySpec == Init /\ [][NextProperty]_vars

\* ------------------------------------------------ observations on states

\* Whether a symbolic value can be reached from item: through lists, tuples and
\* dictionaries, and through the attributes of nested objects.
RECURSIVE HasSymbolic(_, _)
HasSymbolic(h, item) ==
    CASE item.t = "sym" -> TRUE
      [] item.t \in {"list", "tuple", "dict"} ->
            \E k \in 1..Len(item.items) : HasSymbolic(h, item.items[k])
      [] item.t = "obj" ->
            \E k \in 1..Len(h[item.n]) : HasSymbolic(h, h[item.n][k].val)
      [] OTHER -> FALSE

ObjHasSymbolic(h, o) == \E k \in 1..Len(h[o]) : HasSymbolic(h, h[o][k].val)

\* The value of an attribute with every nested object replaced by its contents,
\* so that two objects can be compared attribute by attribute.
RECURSIVE Deep(_, _)
Deep(h, item) ==
    CASE item.t \in {"list", "tuple", "dict"} ->
            [item EXCEPT !.items = [k \in 1..Len(item.items) |-> Deep(h, item.items[k])]]
      [] item.t = "obj" ->
            [t |-> "obj", n |-> 0, e |-> 0,
             items |-> [k \in 1..Len(h[item.n]) |-> Deep(h, h[item.n][k].val)]]
      [] OTHER -> item

Snapshot(h, o) == [k \in 1..Len(h[o]) |-> [name |-> h[o][k].name, val |-> Deep(h, h[o][k].val)]]

Standalone(a) == Decorated(a) /\ arg[a] = <<>>
Embedded(a) == Decorated(a) /\ arg[a] # <<>>
Substituted(a) == "substitute_solution" \in Range(log[a]) \/ callerSubst[a]

\* -------------------------------------------------------------- claims
\* C1: a decorated constructor called without opti has, when it returns, solved
\* its own environment and applied substitute_solution, and no attribute of the
\* object still holds a symbolic value, whatever the constructor body does.
C1_StandaloneReturnsSubstituted ==
    \A a \in Analyses :
        (Standalone(a) /\ pc[a] = "returned") =>
            /\ "solve" \in Range(log[a])
            /\ "substitute_solution" \in Range(log[a])
            /\ ~ObjHasSymbolic(heap, a)

\* C2: a decorated constructor called with an externally owned opti stores exactly
\* that environment, sets opti_provided to True, and never calls solve on the
\* environment or substitute_solution on the object; opti_provided is True if
\* and only if an environment was supplied.
C2_EmbeddedStaysSymbolic ==
    \A a \in Analyses :
        Decorated(a) =>
            /\ (opti_provided[a] = <<TRUE>>) <=> (arg[a] # <<>>)
            /\ arg[a] # <<>> =>
                  /\ opti[a] = arg[a]
                  /\ Range(log[a]) \subseteq {"opti_assigned", "init_method"}
                  /\ a \notin Range(env[arg[a][1]].solves)

C2_Witness ==
    \E a \in Analyses : Embedded(a) /\ pc[a] = "returned" /\ inp[a].nv > 0

\* C3: for the same constructor input, an analysis built against a supplied
\* environment that holds nothing else, then solved by the caller and
\* substituted, has the same attribute values as one built standalone.
C3_RoundTripEqualsStandalone ==
    \A a1, a2 \in Analyses :
        ( /\ Standalone(a1) /\ pc[a1] = "returned"
          /\ Embedded(a2) /\ callerSubst[a2]
          /\ inp[a1] = inp[a2]
          /\ env[CallerEnv].x = body_opti(EmptyOpti, inp[a2]).x
          /\ env[CallerEnv].cons = body_opti(EmptyOpti, inp[a2]).cons )
        => Snapshot(heap, a1) = Snapshot(heap, a2)

\* C4: after substitute_solution(sol) has returned, no symbolic value is reachable
\* from the object: not as an attribute, not inside a nested object, and not
\* inside a list, tuple or dictionary at any depth.
C4_NoSymbolicAfterSubstitution ==
    \A a \in Analyses : Substituted(a) => ~ObjHasSymbolic(heap, a)

\* C5: a decorated constructor assigns the environment, then runs the body, then
\* solves, then substitutes; the body always runs, solve starts only after the
\* body, substitution only follows a successful solve, and after substitution
\* the constructor takes no further step.
C5_LifecycleOrder ==
    \A a \in Analyses :
        Decorated(a) =>
            CASE pc[a] = "assigned" -> log[a] = <<"opti_assigned">>
              [] pc[a] = "built" -> log[a] = <<"opti_assigned", "init_method">>
              [] pc[a] = "solved" -> log[a] = <<"opti_assigned", "init_method", "solve">>
              [] pc[a] = "raised" ->
                    log[a] = <<"opti_assigned", "init_method", "solve_raised">>
              [] pc[a] = "returned" ->
                    \/ log[a] = <<"opti_assigned", "init_method">>
                    \/ log[a] = <<"opti_assigned", "init_method", "solve",
                                  "substitute_solution">>
              [] OTHER -> FALSE

C5_Witness ==
    \E a \in Analyses :
        /\ pc[a] = "returned"
        /\ log[a] = <<"opti_assigned", "init_method", "solve", "substitute_solution">>
        /\ \E b \in Analyses : pc[b] = "raised"

\* C6: every step of a construction against the shared, externally supplied
\* environment leaves the variables and constraints already in it in place and
\* unchanged (it only appends), does not solve it, and leaves the analysis bound
\* to that same environment.
C6_SharedEnvAppendOnly ==
    [][ /\ IsPrefix(env[CallerEnv].x, env'[CallerEnv].x)
        /\ IsPrefix(env[CallerEnv].cons, env'[CallerEnv].cons)
        /\ pc' # pc => env'[CallerEnv].solves = env[CallerEnv].solves
        /\ \A a \in Analyses : arg'[a] # <<>> => opti'[a] = arg'[a] ]_vars

C6_Witness ==
    /\ \A a \in Analyses : Embedded(a) /\ pc[a] = "returned" /\ inp[a].nv > 0
    /\ Len(env[CallerEnv].x) >= 2
    /\ Len(env[CallerEnv].cons) >= 2

\* C9: reading opti or opti_provided raises ImplicitAnalysisInitError exactly
\* when the constructor was not wrapped (the slot was never assigned); after
\* the wrapped constructor assigned them a read returns the stored value.
C9_ReadRaisesIffUnassigned ==
    lastRead.attr # "none" =>
        /\ lastRead.raised <=> ~Decorated(lastRead.obj)
        /\ (~lastRead.raised /\ lastRead.attr = "opti") =>
              lastRead.val = opti[lastRead.obj] /\ lastRead.val # <<>>
        /\ (~lastRead.raised /\ lastRead.attr = "opti_provided") =>
              lastRead.flag = opti_provided[lastRead.obj] /\ lastRead.flag # <<>>

C9_Witness ==
    /\ lastRead.attr = "opti_provided"
    /\ lastRead.raised
    /\ \E a \in Analyses : Decorated(a) /\ pc[a] = "returned"

\* Airplane.__init__ with every analysis_specific_options argument, and
\* get_analysis_specific_options on the constructed Airplane.
OptionsArgs ==
    /\ given \in UserArgs
    /\ aso = given
    /\ apc = "parsing"
    /\ aidx = 1
    /\ aerr = <<>>
    /\ airplane = <<>>
    /\ got = <<>>

LifeIdle == LifeInit /\ shape = "direct"

OptionsNext == ParseIter \/ ParseReturn \/ GetOptions

OptionsInit == LifeIdle /\ OptionsArgs /\ MotorIdle /\ GeomIdle

OptionsSpec == OptionsInit /\ [][OptionsNext]_vars

\* motor_electric_performance with every combination of supplied arguments.
MotorArgs ==
    /\ margs0 \in [Quantities -> MotorValues]
    /\ margs = margs0
    /\ known = [q \in Quantities |-> FALSE]
    /\ mpc = "call"
    /\ passes = 0

MotorNext == MotorValidate \/ MotorLoopPass \/ MotorReturn

MotorInit == LifeIdle /\ OptIdle /\ MotorArgs /\ GeomIdle

MotorSpec == MotorInit /\ [][MotorNext]_vars

\* ------------------------------------------- claims on options and motor
\* The entries and keys of an analysis_specific_options argument that are not
\* option keys of their analysis.
BadKeys(args, i) ==
    {j \in 1..Len(args[i].options) :
        args[i].options[j].key \notin Range(option_keys(args[i].analysis))}
BadEntries(args) == {i \in 1..Len(args) : BadKeys(args, i) # {}}
Min(S) == CHOOSE m \in S : \A n \in S : m <= n

\* C7: when some supplied option key is not a valid option key of its analysis,
\* wherever it sits, Airplane.__init__ raises the ValueError that lists the
\* valid option keys of that analysis, and no Airplane is produced.
C7_BadKeyFailsConstruction ==
    BadEntries(given) # {} =>
        LET i == Min(BadEntries(given))
            j == Min(BadKeys(given, i))
        IN  /\ apc \in {"parsing", "ValueError"}
            /\ airplane = <<>>
            /\ apc = "parsing" => aidx <= i
            /\ apc = "ValueError" =>
                  /\ aerr[1].analysis = given[i].analysis
                  /\ aerr[1].key = given[i].options[j].key
                  /\ aerr[1].valid = option_keys(given[i].analysis)

C7_Witness ==
    /\ apc = "ValueError"
    /\ BadEntries(given) = {2}
    /\ BadKeys(given, 2) = {2}

\* The dict the documentation of validate_analysis_specific_options describes:
\* the analysis' option keys, each with the user's value, or the default.
Expected(analysis, user) ==
    [k \in 1..Len(option_keys(analysis)) |->
        LET key == option_keys(analysis)[k]
        IN  [key |-> key,
             value |-> IF \E j \in 1..Len(user) : user[j].key = key
                       THEN user[CHOOSE j \in 1..Len(user) : user[j].key = key].value
                       ELSE default_analysis_specific_options(analysis, key)]]

\* C8: for user options with only valid keys the validated dict has exactly the
\* analysis' option keys, each supplied key with the user's value and every
\* other key with its default; get_analysis_specific_options for an analysis
\* without stored options returns exactly the defaults.
C8_ValidatedIsUserOverDefaults ==
    /\ \A i \in 1..Len(aso) :
          i < aidx =>
              /\ aso[i].analysis = given[i].analysis
              /\ aso[i].options = Expected(given[i].analysis, given[i].options)
    /\ got # <<>> =>
          IF \E i \in 1..Len(given) : given[i].analysis = got[1].analysis
          THEN \E i \in 1..Len(given) :
                  /\ given[i].analysis = got[1].analysis
                  /\ got[1].options = Expected(given[i].analysis, given[i].options)
          ELSE got[1].options = Expected(got[1].analysis, <<>>)

C8_Witness ==
    /\ got # <<>>
    /\ \A i \in 1..Len(given) : given[i].analysis # got[1].analysis
    /\ \E i \in 1..Len(given) :
          /\ given[i].analysis = "AVL"
          /\ Keys(given[i].options) = <<"q">>
          /\ aso[i].options = <<[key |-> "p", value |-> 0],
                                [key |-> "q", value |-> given[i].options[1].value]>>

Supplied == {q \in Quantities : margs[q].src = "given"}

\* C10: motor_electric_performance goes on past its asserts if and only if
\* exactly two of voltage, current, rpm, torque are supplied and they are not
\* current and torque; every other call ends in an AssertionError before any
\* quantity has been computed.
C10_AcceptsExactlyAdmissiblePairs ==
    mpc # "call" =>
        /\ mpc \in {"loop", "returned"} <=>
              (Cardinality(Supplied) = 2 /\ Supplied # {"current", "torque"})
        /\ mpc \notin {"loop", "returned"} =>
              /\ mpc = "AssertionError"
              /\ passes = 0
              /\ \A q \in Quantities : margs[q].src # "computed"

C10_Witness ==
    /\ mpc = "AssertionError"
    /\ Supplied = {"current", "torque"}

\* C14: for each of the five admissible input pairs the resolution loop ends
\* with all four quantities known after at most two passes through its body
\* (while a quantity is still unknown fewer than two passes have been made, so
\* the loop is never stuck and the cap MaxPasses is never what stops it), and
\* the two quantities the caller supplied still hold the caller's values, both
\* during the loop and in the returned tuple.
AdmissiblePairs ==
    {{"voltage", "current"}, {"voltage", "rpm"}, {"voltage", "torque"},
     {"current", "rpm"}, {"rpm", "torque"}}
Supplied0 == {q \in Quantities : margs0[q] # None}
C14_TwoPassesSuppliedUnchanged ==
    (mpc \in {"loop", "returned"} /\ Supplied0 \in AdmissiblePairs) =>
        /\ passes <= 2
        /\ (mpc = "loop" /\ ~AllKnown(known)) => passes < 2
        /\ mpc = "returned" => AllKnown(known)
        /\ \A q \in Supplied0 : margs[q] = margs0[q]
\* The pair (rpm, torque) has been resolved, which takes the second pass.
C14_Witness ==
    /\ mpc = "returned"
    /\ passes = 2
    /\ Supplied0 = {"rpm", "torque"}
    /\ AllKnown(known)

\* ------------------------------------- claims on substitute_solution alone
\* An element of a list or tuple before and after conversion: a number is the
\* same number, a symbolic value has become a number, a list or tuple has become
\* a list of the same length whose elements correspond position by position, and
\* anything else (a nested object, a string, a dict) is the same value.
RECURSIVE Corresponds(_, _)
Corresponds(old, new) ==
    CASE old.t = "num" -> new = old
      [] old.t = "sym" -> new.t = "num"
      [] old.t \in {"list", "tuple"} ->
            /\ new.t = "list"
            /\ Len(new.items) = Len(old.items)
            /\ \A k \in 1..Len(old.items) : Corresponds(old.items[k], new.items[k])
      [] OTHER -> new = old

\* Object o has the same attribute names in the same order in heaps h and h2,
\* its numeric attributes are unchanged, its attributes that referred to a
\* nested object refer to the same object, and its list and tuple attributes
\* keep their length and element order.
Preserved(h, h2, o) ==
    /\ Len(h2[o]) = Len(h[o])
    /\ \A k \in 1..Len(h[o]) :
         /\ h2[o][k].name = h[o][k].name
         /\ h[o][k].val.t = "num" => h2[o][k].val = h[o][k].val
         /\ h[o][k].val.t = "obj" => h2[o][k].val = h[o][k].val
         /\ h[o][k].val.t \in {"list", "tuple"} =>
                /\ Len(h2[o][k].val.items) = Len(h[o][k].val.items)
                /\ Corresponds(h[o][k].val, h2[o][k].val)

\* C15: every call of substitute_solution, by the constructor wrapper or by
\* the caller, works in place and keeps the shape of the object: the object and
\* its nested object have the same attribute names before and after, their
\* numeric attributes are unchanged, an attribute that held a nested
\* AeroSandboxObject holds the same object (the value the nested call returned),
\* and list and tuple attributes keep length and element order.
C15_SubstitutionKeepsShape ==
    [][\A a \in Analyses :
          (SubstituteOwn(a) \/ CallerSubstitute(a)) =>
              /\ Preserved(heap, heap', a)
              /\ Preserved(heap, heap', Child(a))
              /\ \A o \in Objects \ {a, Child(a)} : heap'[o] = heap[o]]_vars
\* A substituted analysis whose list attribute holds a nested object and a
\* decision variable, and whose nested object holds a tuple.
C15_Witness ==
    \E a \in Analyses :
        /\ Substituted(a)
        /\ inp[a].shape = "listobj"
        /\ inp[a].nv > 0
        /\ heap[a][1].val.items[1] = Obj(Child(a))
        /\ heap[Child(a)][1].val.t = "list"

\* Construction of analyses in the caller's and in their own environments,
\* with the caller substituting its solution into an analysis up to twice.
NextResubst ==
    \/ \E a \in Analyses : AssignOpti(a)
    \/ \E a \in Analyses : InitMethod(a)
    \/ \E a \in Analyses : SolveOwn(a)
    \/ \E a \in Analyses : SubstituteOwn(a)
    \/ \E a \in Analyses : ReturnUnsolved(a)
    \/ CallerSolve
    \/ \E a \in Analyses : CallerSubstitute(a)
    \/ \E a \in Analyses : CallerSubstituteAgain(a)

ResubstSpec == Init /\ [][NextResubst]_vars

\* C16: a second call of substitute_solution with the solution of the first
\* call changes no attribute of any object: the heap after the second call is
\* the heap after the first, also when the nested object is referred to by two
\* attributes and so is substituted twice within each call.
C16_SecondCallChangesNothing ==
    [][\A a \in Analyses : CallerSubstituteAgain(a) => heap' = heap]_vars
\* The second call has been made on an analysis that stored a decision variable
\* in a nested object two of its attributes refer to.
C16_Witness ==
    \E a \in Analyses :
        /\ Len(substCalls[a]) = 2
        /\ inp[a].shape = "objtwice"
        /\ inp[a].nv > 0
        /\ heap[a][1].val = Obj(Child(a))
        /\ heap[a][2].val = Obj(Child(a))
        /\ heap[Child(a)][1].val.t = "list"

\* ------------------------------------------------- claims on the airplane
\* is_entirely_symmetric on airplanes of every number of wings, the wings and
\* cross-sections being drawn as the loops take them.
SymArgs ==
    /\ nwings \in 0..MaxWings
    /\ spc = "wings"
    /\ widx = 0
    /\ wing = NoWing
    /\ xidx = 0
    /\ xsec = NoXsec
    /\ sresult = <<>>
    /\ asym = FALSE

SymNext == SymNextWing \/ SymNextXsec \/ SymXsecsDone \/ SymReturnTrue

SymInit == LifeIdle /\ OptIdle /\ MotorIdle /\ SymArgs /\ DrawIdle /\ VlmIdle

SymmetrySpec == SymInit /\ [][SymNext]_vars

\* C11: is_entirely_symmetric returns False as soon as a wing reports itself
\* not entirely symmetric, a cross-section has a control surface that is not of
\* symmetric type and is deflected, or a cross-section of a wing not flagged
\* symmetric has a nonzero lateral leading-edge coordinate, a nonzero twist
\* about an axis with a nonzero x or z component, or an airfoil with nonzero CL
\* or Cm at zero angle of attack; when the loops end without meeting any of
\* these, also for an airplane without wings, it returns True.
C11_FalseIffSymmetryBroken ==
    /\ asym => (spc = "returned" /\ sresult = <<FALSE>>)
    /\ (spc = "returned" /\ ~asym) => (sresult = <<TRUE>> /\ widx = nwings)
    /\ sresult = <<>> <=> spc # "returned"
\* The second wing, not flagged symmetric, has a cross-section twisted about an
\* axis that has an x component only, and nothing else breaks symmetry.
C11_Witness ==
    /\ spc = "returned"
    /\ sresult = <<FALSE>>
    /\ widx = 2
    /\ ~wing.symmetric
    /\ xsec.twist # 0
    /\ xsec.twist_axis = <<1, 1, 0>>
    /\ xsec.xyz_le[2] = 0
    /\ xsec.CL0 = 0
    /\ xsec.Cm0 = 0
    /\ xsec.control_surface_deflection = 0

\* Airplane.draw with every backend, thin_wings and show, on airplanes of every
\* number of wings and fuselages.
DrawArgs ==
    /\ dargs \in DrawInputs
    /\ dpc = "call"
    /\ dcall = <<>>
    /\ dmeshes = <<>>
    /\ dfig = <<>>

DrawNext == DrawMesh \/ DrawRaise \/ DrawReturn

DrawInit == LifeIdle /\ OptIdle /\ MotorIdle /\ SymIdle /\ DrawArgs /\ VlmIdle

DrawSpec == DrawInit /\ [][DrawNext]_vars

\* C12: for each of the backends plotly, pyvista and trimesh, every wing mesh
\* that draw makes and draws is the wing's thin-surface mesh when the caller
\* passed thin_wings=True and the wing's body mesh when the caller passed
\* thin_wings=False.
C12_ThinWingsDecidesWingMesh ==
    (dpc \in {"meshed", "returned"} /\ dargs.backend \in SupportedBackends) =>
        \A k \in 1..Len(dmeshes) :
            dmeshes[k].part = "wing" =>
                dmeshes[k].made_by =
                    (IF dargs.thin_wings THEN "mesh_thin_surface" ELSE "mesh_body")

\* The vortex lattice analysis on flat and non-flat surfaces of every panel
\* resolution, under every flight condition.
VlmArgs ==
    /\ vin \in {<<in>> : in \in VlmInputs}
    /\ vpc = "constructed"
    /\ vrhs = <<>>
    /\ vgamma = <<>>
    /\ vout = <<>>

VlmNext == VlmBuild \/ VlmSolve \/ VlmLoads

VlmInit == LifeIdle /\ OptIdle /\ MotorIdle /\ SymIdle /\ DrawIdle /\ VlmArgs

VlmSpec == VlmInit /\ [][VlmNext]_vars

FlatPlateAtZero ==
    /\ vin[1].flat
    /\ vin[1].alpha = 0
    /\ vin[1].beta = 0
    /\ vin[1].p = 0 /\ vin[1].q = 0 /\ vin[1].r = 0

\* C13: for a flat, uncambered, untwisted surface at zero angle of attack, zero
\* sideslip and zero rotation rates, at every panel resolution, the right-hand
\* side of the flow-tangency system is zero on every panel, the solved
\* circulation is zero on every panel, and CL and Cm are zero.
C13_FlatPlateZeroLoads ==
    (vpc # "idle" /\ FlatPlateAtZero) =>
        /\ vpc \in {"built", "solved", "loads"} =>
              /\ Len(vrhs) = vin[1].spanwise_resolution * vin[1].chordwise_resolution
              /\ \A k \in 1..Len(vrhs) : vrhs[k] = 0
        /\ vpc \in {"solved", "loads"} =>
              /\ Len(vgamma) = Len(vrhs)
              /\ \A k \in 1..Len(vgamma) : vgamma[k] = 0
        /\ vpc = "loads" => (vout[1].CL = 0 /\ vout[1].Cm = 0)
\* The loads of a flat plate of two by two panels at the zero condition.
C13_Witness ==
    /\ vpc = "loads"
    /\ FlatPlateAtZero
    /\ vin[1].spanwise_resolution = 2
    /\ vin[1].chordwise_resolution = 2
    /\ Len(vgamma) = 4

====
